---- MODULE Spec2Model ----
(***************************************************************************)
(* restic-web-api: an actix-web server that proxies four operations to    *)
(* the restic command line tool.  Every handler locks the shared          *)
(* configuration (tokio::sync::Mutex), writes the repository password to  *)
(* a NamedTempFile, runs restic with std::process::Command::output() and  *)
(* turns the captured output into an HTTP response.                       *)
(*                                                                         *)
(* Text is a sequence of code points, process output a sequence of bytes. *)
(***************************************************************************)
EXTENDS Integers, Sequences, FiniteSets, TLC

\* ------------------------------------------------------------------ bounds
\* Requests the server receives in one behaviour.
NumReqs == 3
\* Worker threads of the HttpServer (actix runs one single-threaded runtime
\* per worker).
NumWorkers == 2

Reqs == 1..NumReqs
Workers == 1..NumWorkers

\* Names NamedTempFile::new() can draw for the password file.
Paths == {"/tmp/.tmpA", "/tmp/.tmpB"}
NoFile == ""
NoReq == 0

\* ------------------------------------------------------ configuration file
\* Config values load_config() can return (config.toml of the operator).
Configs == { [repository |-> [path |-> "/srv/repo", password |-> "s3cret"]] }

\* toml::from_str accepts any two strings, the empty string included.
LoadableConfigs ==
    { [repository |-> [path |-> p, password |-> w]] :
          p \in {"", "/srv/repo"}, w \in {"", "s3cret"} }

\* ------------------------------------------------------------ text helpers
Replacement == 65533

IsCont(b) == b >= 128 /\ b <= 191

\* Length of the UTF-8 sequence a lead byte announces, 0 for a byte that
\* cannot start one.
Utf8Len(b) ==
    IF b < 128 THEN 1
    ELSE IF b >= 194 /\ b <= 223 THEN 2
    ELSE IF b >= 224 /\ b <= 239 THEN 3
    ELSE IF b >= 240 /\ b <= 244 THEN 4
    ELSE 0

\* TRUE iff the first bytes of s are one complete UTF-8 sequence.
Utf8Head(s) ==
    /\ s # <<>>
    /\ Utf8Len(Head(s)) > 0
    /\ Len(s) >= Utf8Len(Head(s))
    /\ \A i \in 2..Utf8Len(Head(s)) : IsCont(s[i])

CodePoint(s) ==
    LET n == Utf8Len(Head(s)) IN
    IF n = 1 THEN s[1]
    ELSE IF n = 2 THEN (s[1] - 192) * 64 + (s[2] - 128)
    ELSE IF n = 3 THEN (s[1] - 224) * 4096 + (s[2] - 128) * 64 + (s[3] - 128)
    ELSE (s[1] - 240) * 262144 + (s[2] - 128) * 4096 + (s[3] - 128) * 64 + (s[4] - 128)

Drop(s, n) == SubSeq(s, n + 1, Len(s))

RECURSIVE Utf8Valid(_)
Utf8Valid(s) ==
    IF s = <<>> THEN TRUE
    ELSE Utf8Head(s) /\ Utf8Valid(Drop(s, Utf8Len(Head(s))))

RECURSIVE Decode(_)
Decode(s) ==
    IF s = <<>> THEN <<>>
    ELSE <<CodePoint(s)>> \o Decode(Drop(s, Utf8Len(Head(s))))

\* String::from_utf8: the text, or an error when the bytes are not UTF-8.
FromUtf8(bytes) ==
    IF Utf8Valid(bytes)
    THEN [ok |-> TRUE, text |-> Decode(bytes)]
    ELSE [ok |-> FALSE, text |-> <<>>]

\* String::from_utf8_lossy: never fails, an invalid byte becomes U+FFFD.
RECURSIVE FromUtf8Lossy(_)
FromUtf8Lossy(bytes) ==
    IF bytes = <<>> THEN <<>>
    ELSE IF Utf8Head(bytes)
         THEN <<CodePoint(bytes)>> \o FromUtf8Lossy(Drop(bytes, Utf8Len(Head(bytes))))
         ELSE <<Replacement>> \o FromUtf8Lossy(Tail(bytes))

IsWs(c) == c \in {32, 9, 10, 13}
IsDigit(c) == c >= 48 /\ c <= 57

RECURSIVE SkipWs(_)
SkipWs(s) == IF s # <<>> /\ IsWs(Head(s)) THEN SkipWs(Tail(s)) ELSE s

\* str::trim
RECURSIVE TrimEnd(_)
TrimEnd(s) ==
    IF s # <<>> /\ IsWs(s[Len(s)]) THEN TrimEnd(SubSeq(s, 1, Len(s) - 1)) ELSE s

Trim(s) == TrimEnd(SkipWs(s))

\* TRUE iff text occurs in s as a contiguous run.
Contains(s, text) ==
    \E i \in 0..Len(s) :
        /\ i + Len(text) <= Len(s)
        /\ SubSeq(s, i + 1, i + Len(text)) = text

\* ------------------------------------------------------------- JSON values
\* serde_json::from_str on the subset of JSON made of unsigned integers and
\* arrays: a value, optional white space around it, nothing after it.
JNum(n) == [t |-> "num", n |-> n, items |-> <<>>]
JArr(items) == [t |-> "arr", n |-> 0, items |-> items]
ParseFail == [ok |-> FALSE, value |-> JNum(0), rest |-> <<>>]
ParseOk(v, rest) == [ok |-> TRUE, value |-> v, rest |-> rest]

RECURSIVE ParseDigits(_, _)
ParseDigits(acc, s) ==
    IF s # <<>> /\ IsDigit(Head(s))
    THEN ParseDigits(acc * 10 + (Head(s) - 48), Tail(s))
    ELSE ParseOk(JNum(acc), s)

ParseNumber(s) ==
    IF Head(s) = 48
    THEN IF Len(s) > 1 /\ IsDigit(s[2]) THEN ParseFail ELSE ParseOk(JNum(0), Tail(s))
    ELSE ParseDigits(0, s)

RECURSIVE ParseValue(_)
RECURSIVE ParseItems(_, _)
ParseValue(s) ==
    IF s = <<>> THEN ParseFail
    ELSE IF IsDigit(Head(s)) THEN ParseNumber(s)
    ELSE IF Head(s) = 91
         THEN LET t == SkipWs(Tail(s)) IN
              IF t # <<>> /\ Head(t) = 93 THEN ParseOk(JArr(<<>>), Tail(t))
              ELSE ParseItems(<<>>, t)
    ELSE ParseFail

\* The items of an array after "[" or ","; ends at "]".
ParseItems(acc, s) ==
    LET r == ParseValue(s) IN
    IF ~r.ok THEN ParseFail
    ELSE LET t == SkipWs(r.rest) IN
         IF t = <<>> THEN ParseFail
         ELSE IF Head(t) = 93 THEN ParseOk(JArr(Append(acc, r.value)), Tail(t))
         ELSE IF Head(t) = 44 THEN ParseItems(Append(acc, r.value), SkipWs(Tail(t)))
         ELSE ParseFail

FromStr(text) ==
    LET r == ParseValue(SkipWs(text)) IN
    IF r.ok /\ SkipWs(r.rest) = <<>>
    THEN [ok |-> TRUE, value |-> r.value]
    ELSE [ok |-> FALSE, value |-> JNum(0)]

\* ---------------------------------------------------------------- routing
\* A route pattern and a request path are sequences of tokens: "/" and the
\* names between the slashes.  "{id}" in a pattern matches any name.
EnsureLeadingSlash(pattern) ==
    IF pattern # <<>> /\ Head(pattern) = "/" THEN pattern ELSE <<"/">> \o pattern

\* The route macros on the handlers.
Route(service) ==
    CASE service = "stats" ->
            [method |-> "GET", pattern |-> <<"stats">>]
      [] service = "snapshots" ->
            [method |-> "GET", pattern |-> <<"/", "snapshots">>]
      [] service = "delete_snapshot" ->
            [method |-> "DELETE", pattern |-> <<"/", "snapshots", "/", "{id}">>]
      [] service = "restore_snapshot" ->
            [method |-> "POST", pattern |-> <<"/", "restore">>]
      [] service = "stats::stats" ->
            [method |-> "GET", pattern |-> <<"/", "stats">>]

\* The services main() registers with the App, in order.
MainServices == <<"stats", "snapshots", "delete_snapshot">>

\* stats::config: the services the stats module registers when it is called.
StatsConfig == <<"stats::stats">>

\* An App that also mounts the handlers of restore.rs and stats.rs.
AllServices == MainServices \o StatsConfig \o <<"restore_snapshot">>

Matches(service, line) ==
    LET rt == Route(service)
        pat == EnsureLeadingSlash(rt.pattern) IN
    /\ rt.method = line.method
    /\ Len(pat) = Len(line.path)
    /\ \A i \in 1..Len(pat) :
          \/ pat[i] = line.path[i]
          \/ pat[i] = "{id}" /\ line.path[i] # "/"

\* The first registered service whose route matches, "" when none does.
Dispatch(registered, line) ==
    IF \E i \in 1..Len(registered) : Matches(registered[i], line)
    THEN registered[CHOOSE i \in 1..Len(registered) :
                       /\ Matches(registered[i], line)
                       /\ \A j \in 1..(i - 1) : ~Matches(registered[j], line)]
    ELSE ""

\* --------------------------------------------------------- request inputs
SnapshotIds == {"4f3ba"}
TargetDirs == { <<>>, <<32, 9>>, <<32, 47, 116>> }
NoBody == [snapshot_id |-> "", target_dir |-> <<>>]

RequestLines ==
    { [method |-> "GET", path |-> <<"/", "stats">>, body |-> NoBody],
      [method |-> "GET", path |-> <<"/", "snapshots">>, body |-> NoBody],
      [method |-> "GET", path |-> <<"/", "health">>, body |-> NoBody] }
    \cup { [method |-> "DELETE", path |-> <<"/", "snapshots", "/", id>>, body |-> NoBody] :
              id \in SnapshotIds }
    \cup { [method |-> "POST", path |-> <<"/", "restore">>,
            body |-> [snapshot_id |-> id, target_dir |-> t]] :
              id \in SnapshotIds, t \in TargetDirs }

\* The routing table of an App: the service each request line reaches.
Routed ==
    [registered \in {MainServices, AllServices} |->
        [line \in RequestLines |-> Dispatch(registered, line)]]

NoLine == [method |-> "", path |-> <<>>, body |-> NoBody]

\* What a restic child process can leave behind when it exits.
Stdouts == { <<>>, <<91, 49, 93>>, <<110>>, <<255>> }
Stderrs == { <<114, 110, 102>>, <<114, 255>> }
Outputs == [success : BOOLEAN, stdout : Stdouts, stderr : Stderrs]
NoOutput == [success |-> FALSE, stdout |-> <<>>, stderr |-> <<>>]

\* ------------------------------------------------------------ the handlers
\* An error string: format!("<prefix>{}", detail).  cause names the library
\* error whose Display text is interpolated ("" for none), text is the
\* interpolated text when it comes from the child process.
Message(prefix, cause, text) == [prefix |-> prefix, cause |-> cause, text |-> text]

Ok(v) == [ok |-> TRUE, value |-> v, err |-> Message("", "", <<>>)]
Err(m) == [ok |-> FALSE, value |-> JNum(0), err |-> m]
Unit == JArr(<<>>)
NoResult == Err(Message("", "", <<>>))

\* Every handler decoding the output.
ExpectJsonAlways(handler) == TRUE

ExpectJson(handler) == handler \in {"stats", "stats::stats", "snapshots"}

\* list snapshots running the subcommand of stats.
SubcommandCopied(handler) ==
    CASE handler \in {"stats", "stats::stats", "snapshots"} -> "stats"
      [] handler = "delete_snapshot" -> "forget"
      [] handler = "restore_snapshot" -> "restore"

Subcommand(handler) ==
    CASE handler \in {"stats", "stats::stats"} -> "stats"
      [] handler = "snapshots" -> "snapshots"
      [] handler = "delete_snapshot" -> "forget"
      [] handler = "restore_snapshot" -> "restore"

\* The snapshot id a handler passes on: the {id} of the path or the
\* snapshot_id of the body.
SnapshotId(handler, line) ==
    IF handler = "delete_snapshot" THEN line.path[4] ELSE line.body.snapshot_id

\* The command line of the child process.
CommandArgs(handler, line, cfg, file) ==
    <<"restic", "-r", cfg.repository.path, "--password-file", file, Subcommand(handler)>>
    \o (CASE handler \in {"stats", "stats::stats", "snapshots"} -> <<"--json">>
          [] handler = "delete_snapshot" -> <<SnapshotId(handler, line), "--prune">>
          [] handler = "restore_snapshot" ->
                <<SnapshotId(handler, line), "--target", line.body.target_dir>>)

\* Decoding before the status check.
ClassifyOutputDecodeFirst(handler, o) ==
    IF ExpectJson(handler) /\ ~FromUtf8(o.stdout).ok
    THEN Err(Message("Invalid UTF-8 sequence: ", "FromUtf8Error", <<>>))
    ELSE IF ExpectJson(handler) /\ ~FromStr(FromUtf8(o.stdout).text).ok
         THEN Err(Message("Failed to parse JSON: ", "serde_json::Error", <<>>))
    ELSE IF ~o.success
         THEN Err(Message("Restic error: ", "", FromUtf8Lossy(o.stderr)))
    ELSE IF ~ExpectJson(handler) THEN Ok(Unit)
    ELSE Ok(FromStr(FromUtf8(o.stdout).text).value)

\* Output that does not decode taken for an empty result (unwrap_or_default).
ClassifyOutputLenient(handler, o) ==
    IF ~o.success
    THEN Err(Message("Restic error: ", "", FromUtf8Lossy(o.stderr)))
    ELSE IF ~ExpectJson(handler) THEN Ok(Unit)
    ELSE IF ~FromUtf8(o.stdout).ok \/ ~FromStr(FromUtf8(o.stdout).text).ok
         THEN Ok(JArr(<<>>))
    ELSE Ok(FromStr(FromUtf8(o.stdout).text).value)

\* What the get_restic_* / *_restic_snapshot functions make of the output
\* of the child process.
ClassifyOutput(handler, o) ==
    IF ~o.success
    THEN Err(Message("Restic error: ", "", FromUtf8Lossy(o.stderr)))
    ELSE IF ~ExpectJson(handler) THEN Ok(Unit)
    ELSE IF ~FromUtf8(o.stdout).ok
         THEN Err(Message("Invalid UTF-8 sequence: ", "FromUtf8Error", <<>>))
    ELSE IF ~FromStr(FromUtf8(o.stdout).text).ok
         THEN Err(Message("Failed to parse JSON: ", "serde_json::Error", <<>>))
    ELSE Ok(FromStr(FromUtf8(o.stdout).text).value)

SuccessMessage(handler) ==
    IF handler = "delete_snapshot"
    THEN "Snapshot deleted successfully"
    ELSE "Snapshot restored successfully"

Response(status, kind, json, message, error) ==
    [status |-> status, kind |-> kind, json |-> json, message |-> message, error |-> error]

NoResponse == Response(0, "", JNum(0), "", Message("", "", <<>>))
NotFound == Response(404, "empty", JNum(0), "", Message("", "", <<>>))
BadRequest ==
    Response(400, "error", JNum(0), "", Message("Target directory is required", "", <<>>))

\* The match at the end of each handler.
ToResponse(handler, res) ==
    IF ~res.ok THEN Response(500, "error", JNum(0), "", res.err)
    ELSE IF ExpectJson(handler)
         THEN Response(200, "json", res.value, "", Message("", "", <<>>))
         ELSE Response(200, "message", JNum(0), SuccessMessage(handler), Message("", "", <<>>))

\* ------------------------------------------------------------------ state
VARIABLES
    services,   \* the services registered with the App, in order
    config,     \* AppState.config: the Config behind the Mutex
    holder,     \* the request that owns the MutexGuard, NoReq when unlocked
    waiters,    \* the requests suspended in lock().await, oldest first
    req,        \* the request line of each request being served
    worker,     \* the worker thread that serves each request
    cur,        \* per worker: the request whose handler it is executing
    handler,    \* the service each request was dispatched to
    pc,         \* where each request is
    pwfile,     \* password_file of each request: its path, NoFile when none
    files,      \* per temp file name: the request that created the file
                \* of that name, NoReq when no such file exists
    content,    \* the content of each password file
    child,      \* the restic child process of each request
    spawned,    \* how many child processes each request has started
    out,        \* std::process::Output of each request
    result,     \* what the get_restic_* / *_restic_snapshot call returned
    resp,       \* the HttpResponse the handler of each request has built
    status      \* the status of the response each request was answered with

vars == <<services, config, holder, waiters, req, worker, cur, handler, pc, pwfile,
          files, content, child, spawned, out, result, resp, status>>

NoChild == [state |-> "none", args |-> <<>>]

InitState(registered) ==
    /\ services = registered
    /\ holder = NoReq
    /\ waiters = <<>>
    /\ req = [r \in Reqs |-> NoLine]
    /\ worker = [r \in Reqs |-> 0]
    /\ cur = [w \in Workers |-> NoReq]
    /\ handler = [r \in Reqs |-> ""]
    /\ pc = [r \in Reqs |-> "idle"]
    /\ pwfile = [r \in Reqs |-> NoFile]
    /\ files = [p \in Paths |-> NoReq]
    /\ content = [p \in Paths |-> ""]
    /\ child = [r \in Reqs |-> NoChild]
    /\ spawned = [r \in Reqs |-> 0]
    /\ out = [r \in Reqs |-> NoOutput]
    /\ result = [r \in Reqs |-> NoResult]
    /\ resp = [r \in Reqs |-> NoResponse]
    /\ status = [r \in Reqs |-> 0]

InitWith(registered) == config \in Configs /\ InitState(registered)

\* The server main() starts.
Init == InitWith(MainServices)

\* A server whose App also mounts restore_snapshot and stats::config.
InitAll == InitWith(AllServices)

\* ---------------------------------------------------------------- the Mutex
\* A MutexGuard that is leaked instead of dropped.
ReleasedHolderLeaked == holder

\* The lock handed to the newest waiter.
ReleasedHolderNewest == IF waiters = <<>> THEN NoReq ELSE waiters[Len(waiters)]

\* Dropping the MutexGuard: the lock goes to the oldest waiter, if any.
ReleasedHolder == IF waiters = <<>> THEN NoReq ELSE Head(waiters)

\* A release that wakes one waiter and forgets the others.
ReleasedWaitersLost == <<>>

ReleasedWaiters == IF waiters = <<>> THEN <<>> ELSE Tail(waiters)

\* A lock that never waits.
CanLockAlways == TRUE

\* lock() finds the Mutex free.
CanLock == holder = NoReq

AfterLock(h) == IF h = "restore_snapshot" THEN "validate" ELSE "invoke"

\* --------------------------------------------------------------- the steps
\* A request arrives at a worker that is free to serve it and matches no
\* registered service: the App answers 404.
Route404(r) ==
    /\ pc[r] = "idle"
    /\ \E line \in RequestLines, w \in Workers :
          /\ cur[w] = NoReq
          /\ Routed[services][line] = ""
          /\ req' = [req EXCEPT ![r] = line]
    /\ status' = [status EXCEPT ![r] = NotFound.status]
    /\ pc' = [pc EXCEPT ![r] = "done"]
    /\ UNCHANGED <<services, config, holder, waiters, worker, cur, handler, pwfile,
                   files, content, child, spawned, out, result, resp>>

\* A request arrives at a worker that is free to serve it; the worker calls
\* the handler of the first matching service.
Call(r, line, w) ==
    /\ pc[r] = "idle"
    /\ cur[w] = NoReq
    /\ Routed[services][line] # ""
    /\ req' = [req EXCEPT ![r] = line]
    /\ worker' = [worker EXCEPT ![r] = w]
    /\ handler' = [handler EXCEPT ![r] = Routed[services][line]]

\* The handler is called and data.config.lock().await finds the Mutex free.
Lock(r) ==
    /\ \E line \in RequestLines, w \in Workers :
          /\ Call(r, line, w)
          /\ cur' = [cur EXCEPT ![w] = r]
          /\ pc' = [pc EXCEPT ![r] = AfterLock(Routed[services][line])]
    /\ CanLock
    /\ holder' = r
    /\ UNCHANGED <<services, config, waiters, pwfile, files, content, child, spawned,
                   out, result, resp, status>>

\* The handler is called and data.config.lock().await finds the Mutex
\* taken: the task joins the queue and the worker goes on to other tasks.
LockWait(r) ==
    /\ \E line \in RequestLines, w \in Workers : Call(r, line, w)
    /\ ~CanLock
    /\ waiters' = Append(waiters, r)
    /\ pc' = [pc EXCEPT ![r] = "waiting"]
    /\ UNCHANGED <<services, config, holder, cur, pwfile, files, content, child,
                   spawned, out, result, resp, status>>

\* The worker polls a woken task: lock().await returns the guard.
Resume(r) ==
    /\ pc[r] = "waiting"
    /\ holder = r
    /\ cur[worker[r]] = NoReq
    /\ cur' = [cur EXCEPT ![worker[r]] = r]
    /\ pc' = [pc EXCEPT ![r] = AfterLock(handler[r])]
    /\ UNCHANGED <<services, config, holder, waiters, req, worker, handler, pwfile,
                   files, content, child, spawned, out, result, resp, status>>

\* The check without trim().
IsBlankUntrimmed(dir) == dir = <<>>

\* restore_snapshot: a blank target_dir is answered with 400.
IsBlank(dir) == Trim(dir) = <<>>

RejectTarget(r) ==
    /\ pc[r] = "validate"
    /\ IsBlank(req[r].body.target_dir)
    /\ resp' = [resp EXCEPT ![r] = BadRequest]
    /\ pc' = [pc EXCEPT ![r] = "built"]
    /\ UNCHANGED <<services, config, holder, waiters, req, worker, cur, handler, pwfile,
                   files, content, child, spawned, out, result, status>>

AcceptTarget(r) ==
    /\ pc[r] = "validate"
    /\ ~IsBlank(req[r].body.target_dir)
    /\ pc' = [pc EXCEPT ![r] = "invoke"]
    /\ UNCHANGED <<services, config, holder, waiters, req, worker, cur, handler, pwfile,
                   files, content, child, spawned, out, result, resp, status>>

\* A password file that is kept (persisted) when password_file is dropped.
DroppedFilesKept(r) == files

\* The temp directory after password_file of request r is dropped.
DroppedFiles(r) == [p \in Paths |-> IF p = pwfile[r] THEN NoReq ELSE files[p]]
DroppedContent(r) == [p \in Paths |-> IF p = pwfile[r] THEN "" ELSE content[p]]

\* NamedTempFile::new(): a new, empty file under a name no file has.
NewTempFile(r) ==
    /\ pc[r] = "invoke"
    /\ \E p \in Paths :
          /\ files[p] = NoReq
          /\ pwfile' = [pwfile EXCEPT ![r] = p]
          /\ files' = [files EXCEPT ![p] = r]
          /\ content' = [content EXCEPT ![p] = ""]
    /\ pc' = [pc EXCEPT ![r] = "write"]
    /\ UNCHANGED <<services, config, holder, waiters, req, worker, cur, handler, child,
                   spawned, out, result, resp, status>>

\* NamedTempFile::new() fails: the function returns the error.
NewTempFileFails(r) ==
    /\ pc[r] = "invoke"
    /\ result' = [result EXCEPT ![r] =
                     Err(Message("Failed to create temp file for password: ",
                                 "io::Error", <<>>))]
    /\ pc' = [pc EXCEPT ![r] = "return"]
    /\ UNCHANGED <<services, config, holder, waiters, req, worker, cur, handler, pwfile,
                   files, content, child, spawned, out, resp, status>>

\* password_file.write_all(repo_password.as_bytes())
WritePassword(r) ==
    /\ pc[r] = "write"
    /\ content' = [content EXCEPT ![pwfile[r]] = config.repository.password]
    /\ pc' = [pc EXCEPT ![r] = "spawn"]
    /\ UNCHANGED <<services, config, holder, waiters, req, worker, cur, handler, pwfile,
                   files, child, spawned, out, result, resp, status>>

\* write_all fails and the temp file is left behind.
WritePasswordFailsKept(r) ==
    /\ pc[r] = "write"
    /\ result' = [result EXCEPT ![r] =
                     Err(Message("Failed to write password to temp file: ",
                                 "io::Error", <<>>))]
    /\ pwfile' = [pwfile EXCEPT ![r] = NoFile]
    /\ pc' = [pc EXCEPT ![r] = "return"]
    /\ UNCHANGED <<services, config, holder, waiters, req, worker, cur, handler, files,
                   content, child, spawned, out, resp, status>>

\* write_all fails: the function returns the error, password_file is dropped.
WritePasswordFails(r) ==
    /\ pc[r] = "write"
    /\ result' = [result EXCEPT ![r] =
                     Err(Message("Failed to write password to temp file: ",
                                 "io::Error", <<>>))]
    /\ files' = DroppedFiles(r)
    /\ content' = DroppedContent(r)
    /\ pwfile' = [pwfile EXCEPT ![r] = NoFile]
    /\ pc' = [pc EXCEPT ![r] = "return"]
    /\ UNCHANGED <<services, config, holder, waiters, req, worker, cur, handler, child, spawned, out, resp, status>>

\* The temp file dropped before the command runs (only its path kept).
SpawnAfterDrop(r) ==
    /\ pc[r] = "spawn"
    /\ child' = [child EXCEPT ![r] =
                    [state |-> "running",
                     args |-> CommandArgs(handler[r], req[r], config, pwfile[r])]]
    /\ spawned' = [spawned EXCEPT ![r] = @ + 1]
    /\ files' = [p \in Paths |-> IF p = pwfile[r] THEN NoReq ELSE files[p]]
    /\ pc' = [pc EXCEPT ![r] = "wait"]
    /\ UNCHANGED <<services, config, holder, waiters, req, worker, cur, handler, pwfile,
                   content, out, result, resp, status>>

\* Command::new("restic")...output(): the child process starts; the calling
\* thread stays in output() until it has exited.
Spawn(r) ==
    /\ pc[r] = "spawn"
    /\ child' = [child EXCEPT ![r] =
                    [state |-> "running",
                     args |-> CommandArgs(handler[r], req[r], config, pwfile[r])]]
    /\ spawned' = [spawned EXCEPT ![r] = @ + 1]
    /\ pc' = [pc EXCEPT ![r] = "wait"]
    /\ UNCHANGED <<services, config, holder, waiters, req, worker, cur, handler, pwfile,
                   files, content, out, result, resp, status>>

\* A child process that cannot be started reported like a failed run.
SpawnFailsAsToolError(r) ==
    /\ pc[r] = "spawn"
    /\ result' = [result EXCEPT ![r] = Err(Message("Restic error: ", "", <<>>))]
    /\ files' = [p \in Paths |-> IF p = pwfile[r] THEN NoReq ELSE files[p]]
    /\ content' = [p \in Paths |-> IF p = pwfile[r] THEN "" ELSE content[p]]
    /\ pwfile' = [pwfile EXCEPT ![r] = NoFile]
    /\ pc' = [pc EXCEPT ![r] = "return"]
    /\ UNCHANGED <<services, config, holder, waiters, req, worker, cur, handler, child,
                   spawned, out, resp, status>>

\* output() cannot start the child process: the function returns the error,
\* password_file is dropped.
SpawnFails(r) ==
    /\ pc[r] = "spawn"
    /\ result' = [result EXCEPT ![r] =
                     Err(Message("Failed to execute restic: ", "io::Error", <<>>))]
    /\ files' = DroppedFiles(r)
    /\ content' = DroppedContent(r)
    /\ pwfile' = [pwfile EXCEPT ![r] = NoFile]
    /\ pc' = [pc EXCEPT ![r] = "return"]
    /\ UNCHANGED <<services, config, holder, waiters, req, worker, cur, handler, child, spawned, out, resp, status>>

\* The handler stops waiting for a child process that is still running.
ChildExitTimeout(r) ==
    /\ pc[r] = "wait"
    /\ \E o \in Outputs : out' = [out EXCEPT ![r] = o]
    /\ child' = child
    /\ pc' = [pc EXCEPT ![r] = "classify"]
    /\ UNCHANGED <<services, config, holder, waiters, req, worker, cur, handler, pwfile,
                   files, content, spawned, result, resp, status>>

\* The child process exits; output() returns its status and what it wrote.
ChildExit(r) ==
    /\ pc[r] = "wait"
    /\ \E o \in Outputs : out' = [out EXCEPT ![r] = o]
    /\ child' = [child EXCEPT ![r].state = "exited"]
    /\ pc' = [pc EXCEPT ![r] = "classify"]
    /\ UNCHANGED <<services, config, holder, waiters, req, worker, cur, handler, pwfile,
                   files, content, spawned, result, resp, status>>

\* A failed run of the tool tried again.
ClassifyRetry(r) ==
    /\ pc[r] = "classify"
    /\ IF out[r].success
       THEN /\ result' = [result EXCEPT ![r] = ClassifyOutput(handler[r], out[r])]
            /\ files' = [p \in Paths |-> IF p = pwfile[r] THEN NoReq ELSE files[p]]
            /\ content' = [p \in Paths |-> IF p = pwfile[r] THEN "" ELSE content[p]]
            /\ pwfile' = [pwfile EXCEPT ![r] = NoFile]
            /\ pc' = [pc EXCEPT ![r] = "return"]
       ELSE /\ pc' = [pc EXCEPT ![r] = "spawn"]
            /\ UNCHANGED <<result, files, content, pwfile>>
    /\ UNCHANGED <<services, config, holder, waiters, req, worker, cur, handler, child,
                   spawned, out, resp, status>>

\* The rest of the function: the status check, the decoding, the return;
\* password_file is dropped on the way out.
Classify(r) ==
    /\ pc[r] = "classify"
    /\ result' = [result EXCEPT ![r] = ClassifyOutput(handler[r], out[r])]
    /\ files' = DroppedFiles(r)
    /\ content' = DroppedContent(r)
    /\ pwfile' = [pwfile EXCEPT ![r] = NoFile]
    /\ pc' = [pc EXCEPT ![r] = "return"]
    /\ UNCHANGED <<services, config, holder, waiters, req, worker, cur, handler, child, spawned, out, resp, status>>

\* The match in the handler builds the response.
Respond(r) ==
    /\ pc[r] = "return"
    /\ resp' = [resp EXCEPT ![r] = ToResponse(handler[r], result[r])]
    /\ pc' = [pc EXCEPT ![r] = "built"]
    /\ UNCHANGED <<services, config, holder, waiters, req, worker, cur, handler, pwfile,
                   files, content, child, spawned, out, result, status>>

\* The handler returns the response: the MutexGuard and the other locals
\* are dropped, the worker is free for its next task.
Return(r) ==
    /\ pc[r] = "built"
    /\ holder' = ReleasedHolder
    /\ waiters' = ReleasedWaiters
    /\ cur' = [cur EXCEPT ![worker[r]] = NoReq]
    /\ req' = [req EXCEPT ![r] = NoLine]
    /\ worker' = [worker EXCEPT ![r] = 0]
    /\ handler' = [handler EXCEPT ![r] = ""]
    /\ child' = [child EXCEPT ![r] = NoChild]
    /\ out' = [out EXCEPT ![r] = NoOutput]
    /\ result' = [result EXCEPT ![r] = NoResult]
    /\ resp' = [resp EXCEPT ![r] = NoResponse]
    /\ status' = [status EXCEPT ![r] = resp[r].status]
    /\ pc' = [pc EXCEPT ![r] = "done"]
    /\ UNCHANGED <<services, config, pwfile, files, content, spawned>>

\* ---------------------------------------------------------- specifications
\* The steps of the handlers main.rs defines.
Next ==
    \E r \in Reqs :
        \/ Route404(r)
        \/ Lock(r)
        \/ LockWait(r)
        \/ Resume(r)
        \/ NewTempFile(r)
        \/ NewTempFileFails(r)
        \/ WritePassword(r)
        \/ WritePasswordFails(r)
        \/ Spawn(r)
        \/ SpawnFails(r)
        \/ ChildExit(r)
        \/ Classify(r)
        \/ Respond(r)
        \/ Return(r)

\* The server as main() builds it.
Spec == Init /\ [][Next]_vars

\* With restore_snapshot mounted its two steps are added.
NextAll ==
    \/ Next
    \/ \E r \in Reqs : RejectTarget(r) \/ AcceptTarget(r)

\* The handlers of all three source files behind one App.
SpecAll == InitAll /\ [][NextAll]_vars

\* The steps of the handler called for request r, from the lock it waits
\* for to its response; the exit of its child process is one of them.
HandlerStep(r) ==
    \/ Resume(r) \/ RejectTarget(r) \/ AcceptTarget(r)
    \/ NewTempFile(r) \/ NewTempFileFails(r)
    \/ WritePassword(r) \/ WritePasswordFails(r)
    \/ Spawn(r) \/ SpawnFails(r) \/ ChildExit(r)
    \/ Respond(r) \/ Return(r)

\* Every worker keeps running the handler it is in and polling its woken
\* tasks, and every child process that has started exits.  The second
\* conjunct is WF_vars(Classify(r)): Classify(r) is enabled exactly when
\* pc[r] = "classify".
Fairness ==
    \A r \in Reqs :
        /\ WF_vars(HandlerStep(r))
        /\ []<>(pc[r] # "classify") \/ []<><<Classify(r)>>_vars

\* The requests and child outputs of the runs checked under Fairness: a
\* request for each way the handlers are entered or missed, an output for
\* each exit status.
FairLines ==
    { line \in RequestLines :
          \/ line.method = "GET" /\ line.path[2] \in {"stats", "health"}
          \/ line.method = "POST" /\ line.body.target_dir \in {<<>>, <<32, 47, 116>>} }

FairOutputs ==
    { o \in Outputs : o.stdout = <<91, 49, 93>> /\ o.stderr = <<114, 110, 102>> }

FairInputs ==
    \A r \in Reqs :
        /\ req[r] \in FairLines \cup {NoLine}
        /\ out[r] \in FairOutputs \cup {NoOutput}

NextFair == NextAll /\ FairInputs'

SpecFair == InitAll /\ [][NextFair]_vars /\ Fairness

\* The server main() starts with any config.toml that load_config() accepts.
InitLoaded == config \in LoadableConfigs /\ InitState(MainServices)

SpecLoaded == InitLoaded /\ [][Next]_vars

\* ------------------------------------------------------------- properties
JsonHandlers == {"stats", "stats::stats", "snapshots"}
PlainHandlers == {"delete_snapshot", "restore_snapshot"}

\* The request owns the MutexGuard and its handler is running.
InGuard(r) ==
    pc[r] \in {"validate", "invoke", "write", "spawn", "wait", "classify", "return", "built"}

\* The handler of r has built its response from the output of a child
\* process that ran and exited.
BuiltFromOutput(r) == pc[r] = "built" /\ child[r].state = "exited"

\* The file named by --password-file on the command line of a child process.
PasswordFileArg(r) == child[r].args[5]

\* Text made of white space only (the empty text included).
AllWhiteSpace(text) == \A i \in 1..Len(text) : text[i] \in {32, 9, 10, 13}

\* C1: at most one request is executing a tool invocation (child process
\* started and not yet exited) at any time, whatever requests run
\* concurrently.
C1_OneInvocation ==
    \A a, b \in Reqs :
        child[a].state = "running" /\ child[b].state = "running" => a = b

\* A restore invocation is running while two other requests wait for the guard.
C1_Witness ==
    \E a, b, c \in Reqs :
        /\ a # b /\ b # c /\ a # c
        /\ child[a].state = "running" /\ handler[a] = "restore_snapshot"
        /\ pc[b] = "waiting" /\ pc[c] = "waiting"

\* C2: once a request has returned its response (200, 400 or 500) it does
\* not own the guard and is not queued for it; the guard is owned only by a
\* request whose handler is still running or about to resume, so a later
\* request can acquire it.
C2_GuardReleased ==
    /\ \A r \in Reqs :
          pc[r] = "done" =>
              /\ holder # r
              /\ \A i \in 1..Len(waiters) : waiters[i] # r
    /\ holder # NoReq => InGuard(holder) \/ pc[holder] = "waiting"

\* One request was answered 400, one 500, and a later one owns the guard.
C2_Witness ==
    \E a, b, c \in Reqs :
        /\ pc[a] = "done" /\ status[a] = 400
        /\ pc[b] = "done" /\ status[b] = 500
        /\ holder = c /\ InGuard(c)

\* C3: on every exit path the credential file created for a request no
\* longer exists once the request has returned its response.
C3_FileRemoved ==
    \A r \in Reqs :
        pc[r] = "done" => pwfile[r] = NoFile /\ \A p \in Paths : files[p] # r

\* Requests have returned after a tool run (500), without one (500) and
\* with success (200).
C3_Witness ==
    \E a, b, c \in Reqs :
        /\ pc[a] = "done" /\ status[a] = 500 /\ spawned[a] = 1
        /\ pc[b] = "done" /\ status[b] = 500 /\ spawned[b] = 0
        /\ pc[c] = "done" /\ status[c] = 200 /\ spawned[c] = 1

\* C4: the credential file of an invocation exists, holding the secret,
\* from the start of its child process until the child has exited, and it
\* is removed only after the exit, whatever the exit status.
C4_FileOutlivesChild ==
    /\ [](\A r \in Reqs :
             child[r].state = "running" =>
                 /\ files[PasswordFileArg(r)] = r
                 /\ content[PasswordFileArg(r)] = config.repository.password)
    /\ [][\A r \in Reqs :
             child[r].state # "none" /\ files[PasswordFileArg(r)] = r
             /\ files'[PasswordFileArg(r)] # r
                 => child[r].state = "exited"]_vars

\* A child process has exited with failure and its credential file is
\* still there.
C4_Witness ==
    \E r \in Reqs :
        /\ pc[r] = "classify" /\ child[r].state = "exited" /\ ~out[r].success
        /\ files[PasswordFileArg(r)] = r

\* C5: a restore request whose target_dir is empty or white space only is
\* answered 400 "Target directory is required", starts no child process and
\* creates no credential file; a restore request with any other target_dir
\* is never answered 400.
C5_RestoreValidation ==
    \A r \in Reqs :
        handler[r] = "restore_snapshot" =>
            IF AllWhiteSpace(req[r].body.target_dir)
            THEN /\ pc[r] \in {"waiting", "validate", "built"}
                 /\ spawned[r] = 0 /\ child[r] = NoChild
                 /\ pwfile[r] = NoFile /\ \A p \in Paths : files[p] # r
                 /\ pc[r] = "built" =>
                       /\ resp[r].status = 400
                       /\ resp[r].kind = "error"
                       /\ resp[r].error = Message("Target directory is required", "", <<>>)
            ELSE resp[r].status # 400

\* The response to a restore request with a target_dir of white space.
C5_Witness ==
    \E r \in Reqs :
        /\ pc[r] = "built" /\ handler[r] = "restore_snapshot"
        /\ req[r].body.target_dir = <<32, 9>>
        /\ resp[r].status = 400

\* C6: each of the four operations is registered with the running server,
\* so a request for it reaches its handler and is not answered by the
\* default 404; in particular POST /restore is served by restore_snapshot.
C6_AllRegistered ==
    \A r \in Reqs :
        pc[r] = "done" /\ status[r] = 404 =>
            req[r].path \notin { <<"/", "stats">>, <<"/", "snapshots">>, <<"/", "restore">> }
                               \cup { <<"/", "snapshots", "/", id>> : id \in SnapshotIds }

\* C7: for every endpoint, a child process that exits with a non-zero
\* status yields 500 with an error string made from the tool's stderr text,
\* whatever stdout holds and whether or not JSON was expected; stdout is not
\* decoded.
C7_ToolFailure ==
    \A r \in Reqs :
        BuiltFromOutput(r) /\ ~out[r].success =>
            /\ resp[r].status = 500
            /\ resp[r].kind = "error"
            /\ resp[r].error.prefix = "Restic error: "
            /\ Contains(resp[r].error.text, FromUtf8Lossy(out[r].stderr))
            /\ resp[r].error.cause \notin {"FromUtf8Error", "serde_json::Error"}

\* stats answers 500 for a failed run whose stdout is not UTF-8.
C7_Witness ==
    \E r \in Reqs :
        /\ BuiltFromOutput(r) /\ handler[r] = "stats"
        /\ ~out[r].success /\ out[r].stdout = <<255>>
        /\ resp[r].status = 500

\* C8: for stats and list snapshots with exit status success, stdout that is
\* valid UTF-8 and valid JSON yields 200 with exactly that JSON value; stdout
\* that is not valid UTF-8 or not valid JSON yields 500 with an error, never
\* 200, and the two errors carry different messages.
C8_JsonOutput ==
    \A r \in Reqs :
        BuiltFromOutput(r) /\ out[r].success /\ handler[r] \in JsonHandlers =>
            /\ out[r].stdout = <<91, 49, 93>> =>
                  /\ resp[r].status = 200 /\ resp[r].kind = "json"
                  /\ resp[r].json = JArr(<<JNum(1)>>)
            /\ out[r].stdout = <<255>> =>
                  /\ resp[r].status = 500 /\ resp[r].kind = "error"
                  /\ resp[r].error.prefix = "Invalid UTF-8 sequence: "
            /\ out[r].stdout \in { <<>>, <<110>> } =>
                  /\ resp[r].status = 500 /\ resp[r].kind = "error"
                  /\ resp[r].error.prefix = "Failed to parse JSON: "
            /\ resp[r].status \in {200, 500}
            /\ resp[r].status = 200 <=>
                  FromUtf8(out[r].stdout).ok /\ FromStr(FromUtf8(out[r].stdout).text).ok

\* list snapshots answers 500 for a successful run whose stdout is not JSON.
C8_Witness ==
    \E r \in Reqs :
        /\ BuiltFromOutput(r) /\ handler[r] = "snapshots"
        /\ out[r].success /\ out[r].stdout = <<110>>
        /\ resp[r].status = 500

\* C9: for delete snapshot and restore snapshot, exit status success yields
\* 200 with the fixed success message whatever stdout and stderr hold (empty
\* and non-JSON output included); stdout is not decoded.
C9_PlainSuccess ==
    \A r \in Reqs :
        BuiltFromOutput(r) /\ out[r].success /\ handler[r] \in PlainHandlers =>
            /\ resp[r].status = 200
            /\ resp[r].kind = "message"
            /\ resp[r].message =
                  IF handler[r] = "delete_snapshot"
                  THEN "Snapshot deleted successfully"
                  ELSE "Snapshot restored successfully"

\* delete snapshot answers 200 for a successful run with empty stdout.
C9_Witness ==
    \E r \in Reqs :
        /\ BuiltFromOutput(r) /\ handler[r] = "delete_snapshot"
        /\ out[r].success /\ out[r].stdout = <<>>
        /\ resp[r].status = 200

\* C10: every request goes from pending to one terminal state, answered
\* with success or with failure, and stays there; it starts at most one
\* child process, so no failure is followed by another attempt.
C10_OneAttempt ==
    /\ [](\A r \in Reqs :
             /\ spawned[r] <= 1
             /\ pc[r] = "done" <=> status[r] # 0
             /\ status[r] \in {0, 200, 400, 404, 500})
    /\ [][\A r \in Reqs :
             /\ pc[r] = "done" =>
                   pc'[r] = "done" /\ status'[r] = status[r] /\ spawned'[r] = spawned[r]
             /\ pc[r] = "return" => pc'[r] \in {"return", "built"}
             /\ pc[r] = "built" => pc'[r] \in {"built", "done"}]_vars

\* A request ended in failure after its one child process exited non-zero.
C10_Witness ==
    \E r \in Reqs : pc[r] = "done" /\ status[r] = 500 /\ spawned[r] = 1


\* C11: when the child process cannot be started the request is answered
\* 500 with an error message other than the one of a tool that ran and
\* exited non-zero; there is no exit status, stdout or stderr to classify,
\* and the credential file and the guard are released all the same.
C11_SpawnFailure ==
    /\ [](\A r \in Reqs :
             pc[r] \in {"return", "built"}
             /\ result[r].err.prefix = "Failed to execute restic: " =>
                 /\ spawned[r] = 0 /\ child[r] = NoChild /\ out[r] = NoOutput
                 /\ pwfile[r] = NoFile /\ \A p \in Paths : files[p] # r
                 /\ pc[r] = "built" =>
                       /\ resp[r].status = 500
                       /\ resp[r].kind = "error"
                       /\ resp[r].error = result[r].err
                       /\ resp[r].error.prefix # "Restic error: ")
    /\ [][\A r \in Reqs :
             /\ pc[r] = "spawn" /\ pc'[r] # "spawn" /\ child'[r].state = "none" =>
                   /\ ~result'[r].ok
                   /\ result'[r].err.prefix = "Failed to execute restic: "
                   /\ pc'[r] = "return"
             /\ pc[r] = "built" /\ pc'[r] = "done" =>
                   /\ status'[r] = resp[r].status
                   /\ holder' # r]_vars

\* The response of a restore request whose child process could not start.
C11_Witness ==
    \E r \in Reqs :
        /\ pc[r] = "built" /\ handler[r] = "restore_snapshot"
        /\ result[r].err.prefix = "Failed to execute restic: "
        /\ resp[r].status = 500

\* C12: every operation starts its child process as
\* restic -r <location> --password-file <credential file> <subcommand>
\* <extra args>, with the location loaded at startup, a credential file that
\* holds exactly the configured secret and (stats, --json), (snapshots,
\* --json), (forget, <id> --prune) or (restore, <id> --target <dir>); no
\* operation changes the configured location or secret.
C12_CommandLine ==
    /\ [](\A r \in Reqs :
             child[r].state = "running" =>
                 /\ SubSeq(child[r].args, 1, 5) =
                       <<"restic", "-r", config.repository.path,
                         "--password-file", pwfile[r]>>
                 /\ files[pwfile[r]] = r
                 /\ content[pwfile[r]] = config.repository.password
                 /\ handler[r] \in {"stats", "stats::stats"} =>
                       Drop(child[r].args, 5) = <<"stats", "--json">>
                 /\ handler[r] = "snapshots" =>
                       Drop(child[r].args, 5) = <<"snapshots", "--json">>
                 /\ handler[r] = "delete_snapshot" =>
                       Drop(child[r].args, 5) = <<"forget", req[r].path[4], "--prune">>
                 /\ handler[r] = "restore_snapshot" =>
                       Drop(child[r].args, 5) =
                           <<"restore", req[r].body.snapshot_id, "--target",
                             req[r].body.target_dir>>)
    /\ [][config' = config]_vars

\* The child process of list snapshots is running.
C12_Witness ==
    \E r \in Reqs : child[r].state = "running" /\ handler[r] = "snapshots"


\* C14: a restore request with a blank target_dir is answered without ever
\* waiting for the guard or holding it.
C14_ValidateBeforeGuard ==
    \A r \in Reqs :
        /\ handler[r] = "restore_snapshot"
        /\ AllWhiteSpace(req[r].body.target_dir)
        => pc[r] # "waiting" /\ holder # r

\* C15: while a child process has not exited, the request that started it
\* holds the guard, stays in output() and has returned no response, and no
\* other request that needs the guard, received before or after, is served:
\* a child process that never exits keeps all of them there for ever.
C15_HungChild ==
    /\ [](\A a \in Reqs :
             child[a].state = "running" =>
                 /\ holder = a /\ pc[a] = "wait" /\ status[a] = 0
                 /\ \A b \in Reqs \ {a} : ~InGuard(b))
    /\ [][\A a \in Reqs :
             child[a].state = "running" /\ child'[a].state = "running" =>
                 /\ holder' = a /\ pc'[a] = "wait"
                 /\ \A b \in Reqs \ {a} :
                       /\ pc[b] = "waiting" => pc'[b] = "waiting"
                       /\ pc[b] # "done" /\ pc'[b] = "done" =>
                             pc[b] = "idle" /\ status'[b] = NotFound.status]_vars

\* A child process is running, one request has been waiting for the guard
\* since before it started and another one, received later, found a free
\* worker and waits as well.
C15_Witness ==
    \E a, b, c \in Reqs :
        /\ child[a].state = "running" /\ handler[a] = "stats"
        /\ waiters = <<b, c>>
        /\ worker[c] # worker[a]

\* C16: the guard is granted in the order of the attempts to acquire it: a
\* request joins the queue behind those already waiting, a released guard
\* goes to the request that has waited longest, and a request that finds
\* others waiting never gets the guard before them.
C16_Fifo ==
    /\ [](waiters # <<>> => holder # NoReq)
    /\ [][/\ \A b \in Reqs :
                holder' = b /\ holder # b =>
                    IF waiters = <<>> THEN pc[b] = "idle"
                    ELSE b = Head(waiters) /\ waiters' = Tail(waiters)
          /\ \/ waiters' = waiters
             \/ waiters # <<>> /\ waiters' = Tail(waiters)
             \/ \E b \in Reqs : pc[b] = "idle" /\ waiters' = Append(waiters, b)
          /\ \A a, b \in Reqs :
                (\E i, j \in 1..Len(waiters) :
                    i < j /\ waiters[i] = a /\ waiters[j] = b)
                => spawned'[b] = spawned[b]]_vars

\* The guard has been handed to the request that waited longest while a
\* later one still waits.
C16_Witness ==
    \E a, b \in Reqs :
        /\ holder = a /\ pc[a] = "waiting"
        /\ waiters = <<b>> /\ handler[a] # handler[b]

\* C17: while a request waits for its child process to exit the worker
\* that serves it is not inside the request's handler: it is free to run
\* other request tasks.
C17_WorkerNotBlocked ==
    \A a \in Reqs : child[a].state = "running" => cur[worker[a]] # a

\* C19: a credential file is created new and empty for one request and is
\* the file its child process is given; at any time at most one credential
\* file exists, and it exists only while the request it was created for
\* holds the guard.
C19_OwnCredentialFile ==
    /\ [](/\ Cardinality({p \in Paths : files[p] # NoReq}) <= 1
          /\ \A p \in Paths : \A r \in Reqs :
                files[p] = r => holder = r /\ InGuard(r) /\ pwfile[r] = p
          /\ \A r \in Reqs :
                child[r].state = "running" =>
                    /\ files[PasswordFileArg(r)] = r
                    /\ \A b \in Reqs \ {r} :
                          child[b].state = "none" \/ child[b].args[5] # PasswordFileArg(r)
                          \/ child[b].state = "exited")
    /\ [][\A p \in Paths : \A r \in Reqs :
             files'[p] = r /\ files[p] # r =>
                 /\ files[p] = NoReq /\ content'[p] = ""
                 /\ pc[r] = "invoke"
                 /\ \A b \in Reqs : child[b].state # "running"]_vars

\* A request's child process runs with the request's credential file after
\* another request has used and removed one.
C19_Witness ==
    \E a, b \in Reqs :
        /\ a # b
        /\ child[a].state = "running" /\ files[pwfile[a]] = a
        /\ pc[b] = "done" /\ spawned[b] = 1


\* C18: a child process is started only when the repository location and
\* the secret of the loaded configuration are both non-empty.
C18_NonEmptyConfig ==
    \A r \in Reqs :
        child[r].state # "none" =>
            config.repository.path # "" /\ config.repository.password # ""


\* C20: when every child process that starts exits and the workers keep
\* polling their tasks, every request the server has received reaches its
\* terminal state, its response returned: no request waits for the guard
\* for ever.
C20_Terminates ==
    \A r \in Reqs : (pc[r] # "idle") ~> (pc[r] = "done" /\ status[r] # 0)

\* Two requests wait for the guard while a third one holds it.
C20_Witness ==
    \E a \in Reqs :
        /\ holder = a /\ pc[a] = "classify"
        /\ Len(waiters) = 2

====
